---- MODULE Spec2Model ----
(***************************************************************************)
(* Model of package "packages" (src/packages/load.go): the pattern         *)
(* resolver (List, listPkgs, doListPkgs) and the lazy importer             *)
(* (NewImporter, Importer.Import, Importer.loadPkgExport, Load).           *)
(*                                                                         *)
(* Go strings are modelled as sequences of one-character strings, so that  *)
(* strings.HasPrefix, strings.HasSuffix, slicing and concatenation are     *)
(* computed character by character as the code computes them.              *)
(***************************************************************************)
EXTENDS Integers, Sequences, FiniteSets, TLC

(***************************************************************************)
(* Strings.                                                                *)
(***************************************************************************)

\* The characters used by the model, in increasing byte order (ASCII).
Alphabet == <<".", "/", "_", "a", "b", "e", "f", "g", "m", "n", "o", "p",
              "q", "s", "t", "u", "x", "y", "z">>

ByteOf(c) == CHOOSE i \in 1..Len(Alphabet) : Alphabet[i] = c

RECURSIVE StrLess(_, _)
\* Go's s < t on strings: lexicographic order on bytes.
StrLess(s, t) ==
  IF t = <<>> THEN FALSE
  ELSE IF s = <<>> THEN TRUE
  ELSE IF Head(s) = Head(t) THEN StrLess(Tail(s), Tail(t))
  ELSE ByteOf(Head(s)) < ByteOf(Head(t))

\* strings.HasPrefix(s, prefix)
HasPrefix(s, prefix) ==
  /\ Len(s) >= Len(prefix)
  /\ SubSeq(s, 1, Len(prefix)) = prefix

\* strings.HasSuffix(s, suffix)
HasSuffix(s, suffix) ==
  /\ Len(s) >= Len(suffix)
  /\ SubSeq(s, Len(s) - Len(suffix) + 1, Len(s)) = suffix

Slash == <<"/">>
Dot == <<".">>
DotDot == <<".", ".">>

RECURSIVE SplitFrom(_, _, _)
\* The "/"-separated elements of s (empty elements included), scanning
\* from position i with cur the element being read.
SplitFrom(s, i, cur) ==
  IF i > Len(s) THEN <<cur>>
  ELSE IF s[i] = "/" THEN <<cur>> \o SplitFrom(s, i + 1, <<>>)
  ELSE SplitFrom(s, i + 1, Append(cur, s[i]))

Split(s) == SplitFrom(s, 1, <<>>)

RECURSIVE JoinElems(_)
\* The elements joined by "/".
JoinElems(elems) ==
  IF elems = <<>> THEN <<>>
  ELSE IF Len(elems) = 1 THEN elems[1]
  ELSE elems[1] \o Slash \o JoinElems(Tail(elems))

\* filepath.IsAbs on Unix
IsAbs(p) == HasPrefix(p, Slash)

RECURSIVE CleanElems(_, _, _)
\* path.Clean's element rules: drop empty and "." elements; ".." removes
\* the element before it, is dropped at the root of a rooted path and is
\* kept at the start of a relative one.
CleanElems(elems, out, rooted) ==
  IF elems = <<>> THEN out
  ELSE LET e == Head(elems)
           rest == Tail(elems)
       IN IF e = <<>> \/ e = Dot THEN CleanElems(rest, out, rooted)
          ELSE IF e = DotDot
            THEN IF out # <<>> /\ out[Len(out)] # DotDot
                   THEN CleanElems(rest, SubSeq(out, 1, Len(out) - 1), rooted)
                 ELSE IF rooted THEN CleanElems(rest, out, rooted)
                 ELSE CleanElems(rest, Append(out, e), rooted)
          ELSE CleanElems(rest, Append(out, e), rooted)

\* path.Clean / filepath.Clean (the same function on Unix)
Clean(p) ==
  LET elems == CleanElems(Split(p), <<>>, IsAbs(p))
  IN IF IsAbs(p) THEN Slash \o JoinElems(elems)
     ELSE IF elems = <<>> THEN Dot
     ELSE JoinElems(elems)

\* path.Join(a, b): empty elements are ignored, the rest joined by "/"
\* and cleaned; all empty gives "".
Join(a, b) ==
  IF a = <<>> /\ b = <<>> THEN <<>>
  ELSE IF a = <<>> THEN Clean(b)
  ELSE IF b = <<>> THEN Clean(a)
  ELSE Clean(a \o Slash \o b)

\* path.Ext(name): the suffix beginning at the final dot of the final
\* element of name; empty if there is no dot.
Ext(name) ==
  LET dots == {i \in 1..Len(name) :
                 /\ name[i] = "."
                 /\ \A j \in i..Len(name) : name[j] # "/"}
  IN IF dots = {} THEN <<>>
     ELSE LET i == CHOOSE k \in dots : \A l \in dots : l <= k
          IN SubSeq(name, i, Len(name))

\* The elements of a clean absolute path ("/" has none).
AbsElems(p) == CleanElems(Split(p), <<>>, TRUE)

RECURSIVE CommonLen(_, _)
\* The number of leading elements two element lists share.
CommonLen(a, b) ==
  IF a = <<>> \/ b = <<>> THEN 0
  ELSE IF Head(a) = Head(b) THEN 1 + CommonLen(Tail(a), Tail(b))
  ELSE 0

\* filepath.Rel(basepath, targpath) for absolute paths: "." when they are
\* the same path; otherwise one ".." for every element of base after the
\* common elements, then the remaining elements of targ.
Rel(basepath, targpath) ==
  LET base == AbsElems(basepath)
      targ == AbsElems(targpath)
      n == CommonLen(base, targ)
      ups == [i \in 1..(Len(base) - n) |-> DotDot]
      down == SubSeq(targ, n + 1, Len(targ))
  IN IF base = targ THEN Dot ELSE JoinElems(ups \o down)


(***************************************************************************)
(* The filesystem.  A directory is named by the list of the elements of    *)
(* its absolute path (the root is the empty list).  The directory tree is  *)
(* fixed; the files directly inside each directory and the set of          *)
(* directories that cannot be read vary.                                   *)
(***************************************************************************)

RootDir == <<>>
DirM == << <<"m">> >>
DirA == << <<"m">>, <<"a">> >>
DirB == << <<"m">>, <<"b">> >>
DirBS == << <<"m">>, <<"b">>, <<"s">> >>
DirT == << <<"m">>, <<"_", "t">> >>
DirTS == << <<"m">>, <<"_", "t">>, <<"s">> >>
DirO == << <<"o">> >>

Dirs == {RootDir, DirM, DirA, DirB, DirBS, DirT, DirTS, DirO}

FileGo == <<"x", ".", "g", "o">>
FileUnderscoreGo == <<"_", "y", ".", "g", "o">>
FileTxt == <<"n", ".", "t">>
FileNames == {FileGo, FileUnderscoreGo, FileTxt}

VARIABLES
  cwd,         \* the process's working directory (a clean absolute path)
  files,       \* files[d]: the names of the files directly inside directory d
  unreadable,  \* the directories on which os.ReadDir fails
  pc,          \* "idle", or the entry point that is running
  conf,        \* the *Config argument of the running or last call
  patterns,    \* the pattern arguments of the running or last call
  idx,         \* List: index of the next pattern; Load: of the next path
  pkgPaths,    \* the pkgPaths result (nil is the empty sequence)
  err,         \* the err result
  reads,       \* the paths handed to os.ReadDir by the running or last call
  importer,    \* "none", or "ready" once NewImporter has returned an Importer
  pkgs,        \* Importer.pkgs: import path -> export file
  loaded,      \* Importer.loaded, the map shared with Config.Loaded
  complete,    \* the *types.Package objects whose Complete() is true
  nextObj,     \* the next *types.Package object to be allocated
  callerMap,   \* the caller's Config.Loaded map as it was before the call
  disk,        \* the state of every export file on disk
  ret,         \* the package returned by the last Import (NilPkg: nil)
  pkgsOut,     \* Load's result slice
  imports,     \* the paths Import was called with by the running or last call
  opens,       \* the files handed to os.Open by the last Import
  handles,     \* the number of open export-file handles
  depsCalls,   \* the loadDeps calls made: arguments and the error answered
  failed       \* history: the paths whose export file Import failed to load

\* Error values: a kind and the path or pattern the error names.
NilErr == [kind |-> "nil", arg |-> <<>>]
\* fmt.Errorf("directory `%s` outside available modules", pat)
OutsideErr(pat) == [kind |-> "outside available modules", arg |-> pat]
\* the *fs.PathError of a failed os.ReadDir(pat)
ReadDirErr(pat) == [kind |-> "ReadDir PathError", arg |-> pat]

\* The string of a directory: "/" followed by its elements joined by "/".
DirString(d) == Slash \o JoinElems(d)

Parent(d) == IF d = <<>> THEN d ELSE SubSeq(d, 1, Len(d) - 1)

RECURSIVE Walk(_, _)
\* The kernel's path walk from directory cur along elems: "" and "." stay,
\* ".." moves to the parent, a name moves to that subdirectory.  The result
\* is <<TRUE, dir>>, or <<FALSE, cur>> when an element names no directory.
Walk(elems, cur) ==
  IF elems = <<>> THEN <<TRUE, cur>>
  ELSE LET e == Head(elems)
       IN IF e = <<>> \/ e = Dot THEN Walk(Tail(elems), cur)
          ELSE IF e = DotDot THEN Walk(Tail(elems), Parent(cur))
          ELSE IF Append(cur, e) \in Dirs THEN Walk(Tail(elems), Append(cur, e))
          ELSE <<FALSE, cur>>

\* The directory a path names for a system call made in directory cwd.
Resolve(p) ==
  IF p = <<>> THEN <<FALSE, RootDir>>
  ELSE Walk(Split(p), IF IsAbs(p) THEN RootDir ELSE AbsElems(cwd))

RECURSIVE SortNames(_)
\* The names of S in increasing byte order.
SortNames(S) ==
  IF S = {} THEN <<>>
  ELSE LET m == CHOOSE x \in S : \A y \in S \ {x} : StrLess(x, y)
       IN <<m>> \o SortNames(S \ {m})

SubdirNames(d) == {e[Len(e)] : e \in {x \in Dirs : x # <<>> /\ Parent(x) = d}}

\* os.ReadDir(p): fails when p names no directory or the directory cannot
\* be read; otherwise the directory's entries sorted by file name.
ReadDir(p) ==
  LET r == Resolve(p)
      d == r[2]
  IN IF ~r[1] \/ d \in unreadable
       THEN [ok |-> FALSE, entries |-> <<>>]
     ELSE LET names == SortNames(files[d] \cup SubdirNames(d))
          IN [ok |-> TRUE,
              entries |-> [i \in 1..Len(names) |->
                             [name |-> names[i],
                              isDir |-> names[i] \in SubdirNames(d)]]]


(***************************************************************************)
(* The pattern resolver.                                                   *)
(***************************************************************************)

\* A map[string]struct{} value: nil, or its set of keys.
NilExts == [isNil |-> TRUE, keys |-> {}]
ExtsOf(S) == [isNil |-> FALSE, keys |-> S]

\* var defaultSupportedExts = map[string]struct{}{".go": {}}
defaultSupportedExts == ExtsOf({<<".", "g", "o">>})

\* new(Config): every field has its zero value.
NewConfig ==
  [isNil |-> FALSE, ModRoot |-> <<>>, ModPath |-> <<>>,
   SupportedExts |-> NilExts, LoadedIsNil |-> TRUE]

\* A nil *Config argument.
NilConfig == [NewConfig EXCEPT !.isNil = TRUE]

\* filepath.Abs(p): p cleaned when absolute, else joined to the working
\* directory.
Abs(p) == IF IsAbs(p) THEN Clean(p) ELSE Join(cwd, p)

RECURSIVE doListPkgs(_, _, _, _, _, _)
RECURSIVE ScanEntries(_, _, _, _, _, _, _)

\* The loop of doListPkgs over fis from index i.  st holds the loop's
\* variables: pkgPaths, noSouceFile, and the log of directory reads.
ScanEntries(fis, i, st, pkgPathBase, pat, exts, recursive) ==
  IF i > Len(fis) THEN st
  ELSE LET fi == fis[i]
           name == fi.name
           next ==
             IF HasPrefix(name, <<"_">>) THEN st
             ELSE IF fi.isDir
               THEN IF recursive
                      THEN LET sub == doListPkgs(st.pkgPaths,
                                                 pkgPathBase \o Slash \o name,
                                                 pat \o Slash \o name,
                                                 exts, TRUE, st.reads)
                           IN [st EXCEPT !.pkgPaths = sub.pkgPaths,
                                         !.reads = sub.reads]
                    ELSE st
             ELSE IF st.noSouceFile
               THEN IF Ext(name) \in exts.keys
                      THEN [st EXCEPT !.noSouceFile = FALSE]
                    ELSE st
             ELSE st
       IN ScanEntries(fis, i + 1, next, pkgPathBase, pat, exts, recursive)

\* doListPkgs appending the base path before the paths of the
\* subdirectories instead of after them.
doListPkgsRootFirst(paths, pkgPathBase, pat, exts, recursive, rd) ==
  LET dir == ReadDir(pat)
      rd1 == Append(rd, pat)
  IN IF ~dir.ok
       THEN [pkgPaths |-> paths, err |-> ReadDirErr(pat), reads |-> rd1]
     ELSE LET st == ScanEntries(dir.entries, 1,
                                [pkgPaths |-> paths, noSouceFile |-> TRUE,
                                 reads |-> rd1],
                                pkgPathBase, pat, exts, recursive)
          IN [pkgPaths |-> IF ~st.noSouceFile
                             THEN paths \o <<pkgPathBase>> \o
                                  SubSeq(st.pkgPaths, Len(paths) + 1,
                                         Len(st.pkgPaths))
                           ELSE st.pkgPaths,
              err |-> NilErr,
              reads |-> st.reads]

\* doListPkgs returning the error of a failed read of a subdirectory
\* instead of ignoring it at line 97.
doListPkgsPropagate(paths, pkgPathBase, pat, exts, recursive, rd) ==
  LET dir == ReadDir(pat)
      rd1 == Append(rd, pat)
  IN IF ~dir.ok
       THEN [pkgPaths |-> paths, err |-> ReadDirErr(pat), reads |-> rd1]
     ELSE LET st == ScanEntries(dir.entries, 1,
                                [pkgPaths |-> paths, noSouceFile |-> TRUE,
                                 reads |-> rd1],
                                pkgPathBase, pat, exts, recursive)
              bad == {j \in (Len(rd1) + 1)..Len(st.reads) :
                        ~ReadDir(st.reads[j]).ok}
          IN IF bad # {}
               THEN [pkgPaths |-> st.pkgPaths,
                     err |-> ReadDirErr(st.reads[CHOOSE j \in bad :
                                                   \A k \in bad : j <= k]),
                     reads |-> st.reads]
             ELSE [pkgPaths |-> IF ~st.noSouceFile
                                  THEN Append(st.pkgPaths, pkgPathBase)
                                ELSE st.pkgPaths,
                   err |-> NilErr,
                   reads |-> st.reads]

\* doListPkgs appending the base path also when only the recursion into
\* the subdirectories found import paths.
doListPkgsSubdirQualifies(paths, pkgPathBase, pat, exts, recursive, rd) ==
  LET dir == ReadDir(pat)
      rd1 == Append(rd, pat)
  IN IF ~dir.ok
       THEN [pkgPaths |-> paths, err |-> ReadDirErr(pat), reads |-> rd1]
     ELSE LET st == ScanEntries(dir.entries, 1,
                                [pkgPaths |-> paths, noSouceFile |-> TRUE,
                                 reads |-> rd1],
                                pkgPathBase, pat, exts, recursive)
          IN [pkgPaths |-> IF ~st.noSouceFile \/ st.pkgPaths # paths
                             THEN Append(st.pkgPaths, pkgPathBase)
                           ELSE st.pkgPaths,
              err |-> NilErr,
              reads |-> st.reads]

\* doListPkgs; rd is the log of the directory reads made so far.
doListPkgs(paths, pkgPathBase, pat, exts, recursive, rd) ==
  LET dir == ReadDir(pat)
      rd1 == Append(rd, pat)
  IN IF ~dir.ok
       THEN [pkgPaths |-> paths, err |-> ReadDirErr(pat), reads |-> rd1]
     ELSE LET st == ScanEntries(dir.entries, 1,
                                [pkgPaths |-> paths, noSouceFile |-> TRUE,
                                 reads |-> rd1],
                                pkgPathBase, pat, exts, recursive)
          IN [pkgPaths |-> IF ~st.noSouceFile
                             THEN Append(st.pkgPaths, pkgPathBase)
                           ELSE st.pkgPaths,
              err |-> NilErr,
              reads |-> st.reads]

multi == <<"/", ".", ".", ".">>

\* listPkgs without lines 60-65: the pattern is used with its suffix.
listPkgsKeepSuffix(p, paths, pat0, modRoot, rd) ==
  LET pat == pat0
  IN IF HasPrefix(pat, Dot) \/ HasPrefix(pat, Slash)
       THEN LET patAbs == Abs(pat)
                patRel == Rel(modRoot, patAbs)
            IN IF HasPrefix(patRel, DotDot)
                 THEN [pkgPaths |-> <<>>, err |-> OutsideErr(pat), reads |-> rd]
               ELSE LET exts == IF p.SupportedExts.isNil
                                  THEN defaultSupportedExts
                                ELSE p.SupportedExts
                        pkgPathBase == Join(p.ModPath, patRel)
                    IN doListPkgs(paths, pkgPathBase, pat, exts, FALSE, rd)
     ELSE [pkgPaths |-> Append(paths, pat), err |-> NilErr, reads |-> rd]

\* listPkgs without the test of line 69 for a path outside the module.
listPkgsNoOutsideCheck(p, paths, pat0, modRoot, rd) ==
  LET recursive == HasSuffix(pat0, multi)
      stripped == SubSeq(pat0, 1, Len(pat0) - Len(multi))
      pat == IF recursive
               THEN IF stripped = <<>> THEN Slash ELSE stripped
             ELSE pat0
  IN IF HasPrefix(pat, Dot) \/ HasPrefix(pat, Slash)
       THEN LET patAbs == Abs(pat)
                patRel == Rel(modRoot, patAbs)
                exts == IF p.SupportedExts.isNil
                          THEN defaultSupportedExts
                        ELSE p.SupportedExts
                pkgPathBase == Join(p.ModPath, patRel)
            IN doListPkgs(paths, pkgPathBase, pat, exts, recursive, rd)
     ELSE [pkgPaths |-> Append(paths, pat), err |-> NilErr, reads |-> rd]

\* listPkgs resolving a relative pattern against modRoot instead of the
\* working directory, at line 67 and for the directory it reads.
listPkgsAnchorModRoot(p, paths, pat0, modRoot, rd) ==
  LET recursive == HasSuffix(pat0, multi)
      stripped == SubSeq(pat0, 1, Len(pat0) - Len(multi))
      pat == IF recursive
               THEN IF stripped = <<>> THEN Slash ELSE stripped
             ELSE pat0
  IN IF HasPrefix(pat, Dot) \/ HasPrefix(pat, Slash)
       THEN LET patAbs == IF IsAbs(pat) THEN Clean(pat) ELSE Join(modRoot, pat)
                patRel == Rel(modRoot, patAbs)
            IN IF HasPrefix(patRel, DotDot)
                 THEN [pkgPaths |-> <<>>, err |-> OutsideErr(pat), reads |-> rd]
               ELSE LET exts == IF p.SupportedExts.isNil
                                  THEN defaultSupportedExts
                                ELSE p.SupportedExts
                        pkgPathBase == Join(p.ModPath, patRel)
                    IN doListPkgs(paths, pkgPathBase, patAbs, exts, recursive,
                                  rd)
     ELSE [pkgPaths |-> Append(paths, pat), err |-> NilErr, reads |-> rd]

\* listPkgs taking the module root, instead of "/", for a pattern that
\* is the recursive marker alone (line 63).
listPkgsMarkerIsModRoot(p, paths, pat0, modRoot, rd) ==
  LET recursive == HasSuffix(pat0, multi)
      stripped == SubSeq(pat0, 1, Len(pat0) - Len(multi))
      pat == IF recursive
               THEN IF stripped = <<>> THEN modRoot ELSE stripped
             ELSE pat0
  IN IF HasPrefix(pat, Dot) \/ HasPrefix(pat, Slash)
       THEN LET patAbs == Abs(pat)
                patRel == Rel(modRoot, patAbs)
            IN IF HasPrefix(patRel, DotDot)
                 THEN [pkgPaths |-> <<>>, err |-> OutsideErr(pat), reads |-> rd]
               ELSE LET exts == IF p.SupportedExts.isNil
                                  THEN defaultSupportedExts
                                ELSE p.SupportedExts
                        pkgPathBase == Join(p.ModPath, patRel)
                    IN doListPkgs(paths, pkgPathBase, pat, exts, recursive, rd)
     ELSE [pkgPaths |-> Append(paths, pat), err |-> NilErr, reads |-> rd]

\* listPkgs leaving out the import paths that the earlier patterns have
\* already produced.
listPkgsDedup(p, paths, pat0, modRoot, rd) ==
  LET recursive == HasSuffix(pat0, multi)
      stripped == SubSeq(pat0, 1, Len(pat0) - Len(multi))
      pat == IF recursive
               THEN IF stripped = <<>> THEN Slash ELSE stripped
             ELSE pat0
      seen == {paths[i] : i \in 1..Len(paths)}
      Fresh(x) == x \notin seen
  IN IF HasPrefix(pat, Dot) \/ HasPrefix(pat, Slash)
       THEN LET patAbs == Abs(pat)
                patRel == Rel(modRoot, patAbs)
            IN IF HasPrefix(patRel, DotDot)
                 THEN [pkgPaths |-> <<>>, err |-> OutsideErr(pat), reads |-> rd]
               ELSE LET exts == IF p.SupportedExts.isNil
                                  THEN defaultSupportedExts
                                ELSE p.SupportedExts
                        pkgPathBase == Join(p.ModPath, patRel)
                        r == doListPkgs(<<>>, pkgPathBase, pat, exts,
                                        recursive, rd)
                    IN [r EXCEPT !.pkgPaths = paths \o SelectSeq(@, Fresh)]
     ELSE [pkgPaths |-> IF Fresh(pat) THEN Append(paths, pat) ELSE paths,
           err |-> NilErr, reads |-> rd]

\* (p *Config).listPkgs(pkgPaths, pat, modRoot); rd as in doListPkgs.
listPkgs(p, paths, pat0, modRoot, rd) ==
  LET recursive == HasSuffix(pat0, multi)
      stripped == SubSeq(pat0, 1, Len(pat0) - Len(multi))
      pat == IF recursive
               THEN IF stripped = <<>> THEN Slash ELSE stripped
             ELSE pat0
  IN IF HasPrefix(pat, Dot) \/ HasPrefix(pat, Slash)
       THEN LET patAbs == Abs(pat)
                patRel == Rel(modRoot, patAbs)
            IN IF HasPrefix(patRel, DotDot)
                 THEN [pkgPaths |-> <<>>, err |-> OutsideErr(pat), reads |-> rd]
               ELSE LET exts == IF p.SupportedExts.isNil
                                  THEN defaultSupportedExts
                                ELSE p.SupportedExts
                        pkgPathBase == Join(p.ModPath, patRel)
                    IN doListPkgs(paths, pkgPathBase, pat, exts, recursive, rd)
     ELSE [pkgPaths |-> Append(paths, pat), err |-> NilErr, reads |-> rd]

\* The *Config a nil-checked entry point works on.
ConfOf(c) == IF c.isNil THEN NewConfig ELSE c

RECURSIVE ListFrom(_, _, _, _, _)

\* List's loop after listPkgs returned r for pattern i: return on an
\* error, else go on with the next pattern.
ListNext(c, pats, i, r) ==
  IF r.err # NilErr THEN r
  ELSE ListFrom(c, pats, i + 1, r.pkgPaths, r.reads)

\* The loop of List from pattern i on, with the results so far.
ListFrom(c, pats, i, paths, rd) ==
  IF i > Len(pats) THEN [pkgPaths |-> paths, err |-> NilErr, reads |-> rd]
  ELSE ListNext(c, pats, i,
                listPkgs(c, paths, pats[i], Abs(c.ModRoot), rd))

\* List(conf, pattern...) as one call.
ListResult(c, pats) == ListFrom(ConfOf(c), pats, 1, <<>>, <<>>)


(***************************************************************************)
(* The lazy importer.                                                      *)
(*                                                                         *)
(* A *types.Package is an object with an identity (a natural number); the  *)
(* map loaded holds references to such objects, and complete is the set of *)
(* the objects whose Complete() reports true.                              *)
(***************************************************************************)

\* A nil *types.Package.
NilPkg == 0 - 1

\* types.Unsafe, the package "unsafe" of go/types; it is complete.
UnsafeObj == 0

Unsafe == <<"u", "n", "s", "a", "f", "e">>

\* syscall.ENOENT, as Import returns it.
ENOENT == [kind |-> "syscall.ENOENT", arg |-> <<>>]
\* the *fs.PathError of a failed os.Open(expfile)
OpenErr(expfile) == [kind |-> "Open PathError", arg |-> expfile]
\* the error of gcexportdata.NewReader on a file that is no export file
NewReaderErr(expfile) == [kind |-> "NewReader error", arg |-> expfile]
\* the error of gcexportdata.Read on malformed export data
ReadErr(expfile) == [kind |-> "Read error", arg |-> expfile]

\* The import paths that have export files, and the file of each.
PathPQ == <<"p", "/", "q">>
PathEMA == <<"e", "/", "m", "/", "a">>
PathZ == <<"z">>
ArtifactPaths == {PathPQ, PathEMA}
ExpFile(path) == path \o <<".", "a">>
ExpFiles == {ExpFile(path) : path \in ArtifactPaths}
\* The files the artifact map can name: "unsafe" has no export data, and
\* the file a map names for it does not exist.
MapFiles == ExpFiles \cup {ExpFile(Unsafe)}

\* The packages the export data of a file refers to: p/q imports e/m/a
\* and unsafe, e/m/a imports unsafe.
FileDeps(expfile) ==
  IF expfile = ExpFile(PathPQ) THEN {PathEMA, Unsafe} ELSE {Unsafe}

\* A map extended with fresh objects for the paths of S, allocated from
\* object n on in the byte order of the paths.
AllocAll(m, S, n) ==
  LET order == SortNames(S)
  IN [k \in DOMAIN m \cup S |->
        IF k \in DOMAIN m THEN m[k]
        ELSE n + (CHOOSE i \in 1..Len(order) : order[i] = k) - 1]

\* gcexportdata.Read(r, p.fset, p.loaded, pkgPath) on the opened expfile.
\* Read looks up every package the export data names in the map and adds
\* a new, incomplete package for each one that is missing; at the end it
\* marks the package of pkgPath complete and returns it.  On malformed
\* data it fails after it has added the packages of partial (any set of
\* the missing ones), and completes none.
gcexportdataRead(expfile, pkgPath, partial) ==
  LET named == {pkgPath} \cup FileDeps(expfile)
      missing == named \ DOMAIN loaded
  IN IF disk[expfile] = "ok"
       THEN LET m == AllocAll(loaded, missing, nextObj)
            IN [ret |-> m[pkgPath], err |-> NilErr, loaded |-> m,
                complete |-> complete \cup {m[pkgPath]},
                nextObj |-> nextObj + Cardinality(missing)]
     ELSE LET m == AllocAll(loaded, partial \cap missing, nextObj)
          IN [ret |-> NilPkg, err |-> ReadErr(expfile), loaded |-> m,
              complete |-> complete,
              nextObj |-> nextObj + Cardinality(partial \cap missing)]

\* What a call that leaves the maps alone returns.
Returns(r, e, opened) ==
  [ret |-> r, err |-> e, loaded |-> loaded, complete |-> complete,
   nextObj |-> nextObj, opens |-> opened, leaked |-> 0]

\* loadPkgExport handing gcexportdata.Read a map of its own: the decoded
\* package is returned but p.loaded is left as it was.
loadPkgExportOwnMap(expfile, pkgPath, partial) ==
  IF disk[expfile] = "missing"
    THEN Returns(NilPkg, OpenErr(expfile), <<expfile>>)
  ELSE IF disk[expfile] = "badheader"
    THEN Returns(NilPkg, NewReaderErr(expfile), <<expfile>>)
  ELSE [gcexportdataRead(expfile, pkgPath, partial) EXCEPT !.loaded = loaded]
       @@ [opens |-> <<expfile>>, leaked |-> 0]

\* loadPkgExport storing an empty, complete package under pkgPath when the
\* export file cannot be opened, so that the failure is remembered.
loadPkgExportPoison(expfile, pkgPath, partial) ==
  IF disk[expfile] = "missing"
    THEN [Returns(NilPkg, OpenErr(expfile), <<expfile>>) EXCEPT
            !.loaded = [k \in DOMAIN loaded \cup {pkgPath} |->
                          IF k = pkgPath THEN nextObj ELSE loaded[k]],
            !.complete = complete \cup {nextObj},
            !.nextObj = nextObj + 1]
  ELSE IF disk[expfile] = "badheader"
    THEN Returns(NilPkg, NewReaderErr(expfile), <<expfile>>)
  ELSE gcexportdataRead(expfile, pkgPath, partial)
       @@ [opens |-> <<expfile>>, leaked |-> 0]

\* loadPkgExport closing the file after a successful decode only, instead
\* of by the deferred call of line 187.
loadPkgExportCloseOnSuccess(expfile, pkgPath, partial) ==
  IF disk[expfile] = "missing"
    THEN Returns(NilPkg, OpenErr(expfile), <<expfile>>)
  ELSE IF disk[expfile] = "badheader"
    THEN [Returns(NilPkg, NewReaderErr(expfile), <<expfile>>) EXCEPT
            !.leaked = 1]
  ELSE gcexportdataRead(expfile, pkgPath, partial)
       @@ [opens |-> <<expfile>>,
           leaked |-> IF disk[expfile] = "ok" THEN 0 ELSE 1]

\* (p *Importer).loadPkgExport(expfile, pkgPath).  leaked counts the file
\* handles still open at return: the deferred f.Close() leaves none.
loadPkgExport(expfile, pkgPath, partial) ==
  IF disk[expfile] = "missing"
    THEN Returns(NilPkg, OpenErr(expfile), <<expfile>>)
  ELSE IF disk[expfile] = "badheader"
    THEN Returns(NilPkg, NewReaderErr(expfile), <<expfile>>)
  ELSE gcexportdataRead(expfile, pkgPath, partial)
       @@ [opens |-> <<expfile>>, leaked |-> 0]

\* Import without the cache lookup of lines 173-175.
ImportNoCache(pkgPath, partial) ==
  IF pkgPath \in DOMAIN pkgs
    THEN loadPkgExport(pkgs[pkgPath], pkgPath, partial)
  ELSE Returns(NilPkg, ENOENT, <<>>)

\* Import returning no error for a path it does not know.
ImportNotFoundNil(pkgPath, partial) ==
  IF pkgPath \in DOMAIN loaded /\ loaded[pkgPath] \in complete
    THEN Returns(loaded[pkgPath], NilErr, <<>>)
  ELSE IF pkgPath \in DOMAIN pkgs
    THEN loadPkgExport(pkgs[pkgPath], pkgPath, partial)
  ELSE Returns(NilPkg, NilErr, <<>>)

\* Import returning any cached entry, without the Complete() test of
\* line 173.
ImportTrustIncomplete(pkgPath, partial) ==
  IF pkgPath \in DOMAIN loaded
    THEN Returns(loaded[pkgPath], NilErr, <<>>)
  ELSE IF pkgPath \in DOMAIN pkgs
    THEN loadPkgExport(pkgs[pkgPath], pkgPath, partial)
  ELSE Returns(NilPkg, ENOENT, <<>>)

\* Import remembering a path it does not know: the not-found branch
\* stores a new, incomplete package under pkgPath.
ImportRecordsUnknown(pkgPath, partial) ==
  IF pkgPath \in DOMAIN loaded /\ loaded[pkgPath] \in complete
    THEN Returns(loaded[pkgPath], NilErr, <<>>)
  ELSE IF pkgPath \in DOMAIN pkgs
    THEN loadPkgExport(pkgs[pkgPath], pkgPath, partial)
  ELSE [Returns(NilPkg, ENOENT, <<>>) EXCEPT
          !.loaded = AllocAll(loaded, {pkgPath} \ DOMAIN loaded, nextObj),
          !.nextObj = nextObj + Cardinality({pkgPath} \ DOMAIN loaded)]

\* (p *Importer).Import(pkgPath)
Import(pkgPath, partial) ==
  IF pkgPath \in DOMAIN loaded /\ loaded[pkgPath] \in complete
    THEN Returns(loaded[pkgPath], NilErr, <<>>)
  ELSE IF pkgPath \in DOMAIN pkgs
    THEN loadPkgExport(pkgs[pkgPath], pkgPath, partial)
  ELSE Returns(NilPkg, ENOENT, <<>>)

\* The key sets of the artifact maps loadDeps answers with.
ArtifactMapKeys ==
  {{}, {PathPQ}, {PathEMA}, {PathPQ, PathEMA}, {PathPQ, PathEMA, Unsafe}}

\* loadDeps(tempDir, pkgPaths...), which is not part of load.go: it fails,
\* or returns a map from import paths to export files.
LoadDepsErr == [kind |-> "loadDeps error", arg |-> <<>>]
loadDepsResults ==
  {[err |-> LoadDepsErr, pkgs |-> <<>>]} \cup
  {[err |-> NilErr, pkgs |-> [k \in keys |-> ExpFile(k)]] :
     keys \in ArtifactMapKeys}

\* (p *Config).getTempDir()
getTempDir(p) ==
  Join(p.ModRoot, <<".", "g", "o", "p", "/", "_", "d", "u", "m", "m", "y">>)

\* NewImporter without line 167: "unsafe" is not stored.
SeedLoadedMissing(c, m) == IF c.LoadedIsNil THEN << >> ELSE m

\* NewImporter storing types.Unsafe only when the map has no "unsafe".
SeedLoadedKeep(c, m) ==
  LET base == IF c.LoadedIsNil THEN << >> ELSE m
  IN [k \in DOMAIN base \cup {Unsafe} |->
        IF k \in DOMAIN base THEN base[k] ELSE UnsafeObj]

\* The map NewImporter hands to the Importer: the caller's map (a fresh
\* one when Config.Loaded is nil) with types.Unsafe stored under "unsafe".
SeedLoaded(c, m) ==
  LET base == IF c.LoadedIsNil THEN << >> ELSE m
  IN [k \in DOMAIN base \cup {Unsafe} |->
        IF k = Unsafe THEN UnsafeObj ELSE base[k]]

\* NewImporter storing types.Unsafe in the caller's map before List and
\* loadDeps are known to succeed.
NewImporterSeedFirst(c, l, m, deps) ==
  IF l.err # NilErr
    THEN [ok |-> FALSE, pkgPaths |-> l.pkgPaths, err |-> l.err,
          reads |-> l.reads, called |-> FALSE, pkgs |-> << >>,
          loaded |-> IF c.LoadedIsNil THEN m ELSE SeedLoaded(c, m)]
  ELSE IF deps.err # NilErr
    THEN [ok |-> FALSE, pkgPaths |-> l.pkgPaths, err |-> deps.err,
          reads |-> l.reads, called |-> TRUE, pkgs |-> << >>,
          loaded |-> IF c.LoadedIsNil THEN m ELSE SeedLoaded(c, m)]
  ELSE [ok |-> TRUE, pkgPaths |-> l.pkgPaths, err |-> NilErr,
        reads |-> l.reads, called |-> TRUE, pkgs |-> deps.pkgs,
        loaded |-> SeedLoaded(c, m)]

\* NewImporter from line 152 on, List having returned l: m is what the
\* caller's map holds and deps what loadDeps answers.  called tells
\* whether loadDeps was called.
NewImporterFrom(c, l, m, deps) ==
  IF l.err # NilErr
    THEN [ok |-> FALSE, pkgPaths |-> l.pkgPaths, err |-> l.err,
          reads |-> l.reads, called |-> FALSE, pkgs |-> << >>,
          loaded |-> m]
  ELSE IF deps.err # NilErr
    THEN [ok |-> FALSE, pkgPaths |-> l.pkgPaths, err |-> deps.err,
          reads |-> l.reads, called |-> TRUE, pkgs |-> << >>,
          loaded |-> m]
  ELSE [ok |-> TRUE, pkgPaths |-> l.pkgPaths, err |-> NilErr,
        reads |-> l.reads, called |-> TRUE, pkgs |-> deps.pkgs,
        loaded |-> SeedLoaded(c, m)]

\* NewImporter(conf, pattern...)
NewImporter(c0, pats, m, deps) ==
  NewImporterFrom(ConfOf(c0), ListResult(c0, pats), m, deps)

(***************************************************************************)
(* Inputs of the pattern resolver.                                         *)
(***************************************************************************)

ModM == <<"/", "m">>
ModPathEM == <<"e", "/", "m">>

\* The configurations List is called with: nil, the module /m given by
\* its absolute path with the default extension set, the module given by
\* a path relative to the working directory with a custom extension set,
\* and a module whose root is the root of the file system.
ListConfigs ==
  {NilConfig,
   [NewConfig EXCEPT !.ModRoot = ModM, !.ModPath = ModPathEM],
   [NewConfig EXCEPT !.ModRoot = Dot, !.ModPath = ModPathEM,
                     !.SupportedExts = ExtsOf({<<".", "t">>})],
   [NewConfig EXCEPT !.ModRoot = Slash, !.ModPath = ModPathEM]}

PatDotAll == <<".", "/", ".", ".", ".">>                  \* ./...
PatDot == <<".">>                                         \* .
PatA == <<".", "/", "a">>                                 \* ./a
PatBAll == <<".", "/", "b", "/", ".", ".", ".">>          \* ./b/...
PatAbsAll == <<"/", "m", "/", ".", ".", ".">>             \* /m/...
PatUp == <<".", ".", "/", "o">>                           \* ../o
PatRootAll == <<"/", ".", ".", ".">>                      \* /...
PatBare == <<"p", "/", "q">>                              \* p/q
PatBareAll == <<"p", "/", ".", ".", ".">>                 \* p/...

Patterns ==
  {PatDotAll, PatDot, PatA, PatBAll, PatAbsAll, PatUp, PatRootAll,
   PatBare, PatBareAll}

\* The longest pattern list of a call.
MaxPatterns == 2

PatternLists ==
  UNION {[1..n -> Patterns] : n \in 0..MaxPatterns}

(***************************************************************************)
(* List, one listPkgs call at a time.                                      *)
(***************************************************************************)

vars == <<cwd, files, unreadable, pc, conf, patterns, idx, pkgPaths, err,
          reads, importer, pkgs, loaded, complete, nextObj, callerMap, disk,
          ret, pkgsOut, imports, opens, handles, depsCalls, failed>>

env == <<cwd, files, unreadable>>

impVars == <<importer, pkgs, loaded, complete, nextObj, callerMap, disk, ret,
             pkgsOut, imports, opens, handles, depsCalls, failed>>

\* Before any entry point is called: no call is running, there is no
\* Importer, every export file is intact and no file handle is open.
InitCalls ==
  /\ pc = "idle"
  /\ conf = NilConfig
  /\ patterns = <<>>
  /\ idx = 1
  /\ pkgPaths = <<>>
  /\ err = NilErr
  /\ reads = <<>>
  /\ importer = "none"
  /\ pkgs = <<>>
  /\ loaded = <<>>
  /\ complete = {UnsafeObj}
  /\ nextObj = 1
  /\ callerMap = <<>>
  /\ disk = [f \in MapFiles |-> IF f \in ExpFiles THEN "ok" ELSE "missing"]
  /\ ret = NilPkg
  /\ pkgsOut = <<>>
  /\ imports = <<>>
  /\ opens = <<>>
  /\ handles = 0
  /\ depsCalls = <<>>
  /\ failed = {}

\* The file contents a directory can have.
FileChoices == {{}, {FileGo}, {FileUnderscoreGo, FileTxt}}

InitList ==
  /\ cwd \in {ModM, DirString(DirB)}
  /\ files \in {f \in [Dirs -> FileChoices] :
                  /\ f[RootDir] = {}
                  /\ f[DirM] # {FileUnderscoreGo, FileTxt}
                  /\ f[DirA] # {}
                  /\ f[DirB] # {FileUnderscoreGo, FileTxt}
                  /\ f[DirBS] # {}
                  /\ f[DirT] = {FileGo}
                  /\ f[DirTS] = {FileGo}
                  /\ f[DirO] = {FileGo}}
  /\ unreadable \in {{}, {DirA}, {DirB}}
  /\ InitCalls

\* List is called: lines 113-116.
ListCall ==
  /\ pc = "idle"
  /\ \E c \in ListConfigs, pats \in PatternLists :
       /\ conf' = c
       /\ patterns' = pats
  /\ pc' = "List"
  /\ idx' = 1
  /\ pkgPaths' = <<>>
  /\ err' = NilErr
  /\ reads' = <<>>
  /\ UNCHANGED <<env, impVars>>

\* One iteration of List's loop: lines 117-121.
ListStep ==
  /\ pc = "List"
  /\ idx <= Len(patterns)
  /\ \E r \in {listPkgs(ConfOf(conf), pkgPaths, patterns[idx],
                         Abs(ConfOf(conf).ModRoot), reads)} :
        /\ pkgPaths' = r.pkgPaths
        /\ err' = r.err
        /\ reads' = r.reads
        /\ pc' = IF r.err # NilErr THEN "ListDone" ELSE "List"
  /\ idx' = idx + 1
  /\ UNCHANGED <<env, impVars, conf, patterns>>

\* List returns after the last pattern: line 122.
ListReturn ==
  /\ pc = "List"
  /\ idx > Len(patterns)
  /\ pc' = "ListDone"
  /\ UNCHANGED <<env, impVars, conf, patterns, idx, pkgPaths, err, reads>>

NextList == ListCall \/ ListStep \/ ListReturn

SpecList == InitList /\ [][NextList]_vars


(***************************************************************************)
(* The importer: NewImporter, Import and Load over one module tree, with   *)
(* export files deleted, corrupted and repaired between the calls.         *)
(***************************************************************************)

\* The configurations an importer is built from: nil, the module /m
\* without a Loaded map, and the module /m with the caller's Loaded map.
ImporterConfigs ==
  {NilConfig,
   [NewConfig EXCEPT !.ModRoot = ModM, !.ModPath = ModPathEM],
   [NewConfig EXCEPT !.ModRoot = ModM, !.ModPath = ModPathEM,
                     !.LoadedIsNil = FALSE]}

ImporterPatternLists ==
  {<<>>, <<PatBare>>, <<PatA, PatBare>>, <<PatBare, PatA, PatBare>>,
   <<PatUp>>}

\* The caller's Loaded map before the call: empty, holding a complete or
\* an incomplete package for p/q, or holding a package of the caller's
\* under "unsafe".  Its packages are the objects from 1 on.
EmptyCallerMap == [map |-> << >>, complete |-> {}, next |-> 1]
CallerMaps ==
  {EmptyCallerMap,
   [map |-> [k \in {PathPQ} |-> 1], complete |-> {1}, next |-> 2],
   [map |-> [k \in {PathPQ} |-> 1], complete |-> {}, next |-> 2],
   [map |-> [k \in {Unsafe} |-> 1], complete |-> {1}, next |-> 2]}

\* The import paths Import is called with.
ImportPaths == {Unsafe, PathPQ, PathEMA, PathZ}

InitImporter ==
  /\ cwd = ModM
  /\ files = [d \in Dirs |->
                IF d \in {DirA, DirBS, DirT, DirTS, DirO} THEN {FileGo} ELSE {}]
  /\ unreadable = {}
  /\ InitCalls

\* The caller's inputs of NewImporter and what loadDeps answers.
ImporterInputs ==
  {in \in [c : ImporterConfigs, pats : ImporterPatternLists,
           cm : CallerMaps, deps : loadDepsResults] :
     ConfOf(in.c).LoadedIsNil => in.cm = EmptyCallerMap}

\* The state NewImporter leaves, common to NewImporter and Load.
Construct(in, r) ==
  /\ conf' = in.c
  /\ patterns' = in.pats
  /\ callerMap' = in.cm.map
  /\ pkgPaths' = r.pkgPaths
  /\ err' = r.err
  /\ reads' = r.reads
  /\ depsCalls' = IF r.called
                    THEN <<[tempDir |-> getTempDir(ConfOf(in.c)),
                            pkgPaths |-> r.pkgPaths,
                            err |-> in.deps.err]>>
                  ELSE <<>>
  /\ pkgs' = r.pkgs
  /\ loaded' = r.loaded
  /\ complete' = {UnsafeObj} \cup in.cm.complete
  /\ nextObj' = in.cm.next

\* NewImporter is called: lines 147-170.
NewImporterCall ==
  /\ pc = "idle"
  /\ importer = "none"
  /\ \E in \in ImporterInputs :
       \E r \in {NewImporter(in.c, in.pats, in.cm.map, in.deps)} :
          /\ Construct(in, r)
          /\ importer' = IF r.ok THEN "ready" ELSE "failed"
  /\ UNCHANGED <<env, pc, idx, disk, ret, pkgsOut, imports, opens, handles,
                 failed>>

\* The errors of a failure to load an export file.
ArtifactErrKinds == {"Open PathError", "NewReader error", "Read error"}

\* The state an Import call on pkgPath leaves.
Imported(pkgPath, r) ==
  /\ failed' = IF r.err.kind \in ArtifactErrKinds
                 THEN failed \cup {pkgPath} ELSE failed
  /\ ret' = r.ret
  /\ err' = r.err
  /\ loaded' = r.loaded
  /\ complete' = r.complete
  /\ nextObj' = r.nextObj
  /\ opens' = r.opens
  /\ handles' = handles + r.leaked

\* The sets of packages a failing decode may have added to the map
\* ("unsafe" is in the map from the start).
Partials == SUBSET ArtifactPaths

\* The caller calls Import on the importer: lines 172-180.
ImportCall ==
  /\ pc = "idle"
  /\ importer = "ready"
  /\ \E pkgPath \in ImportPaths, partial \in Partials :
       \E r \in {Import(pkgPath, partial)} :
          /\ Imported(pkgPath, r)
          /\ imports' = <<pkgPath>>
  /\ UNCHANGED <<env, pc, conf, patterns, idx, pkgPaths, reads, importer,
                 pkgs, callerMap, disk, pkgsOut, depsCalls>>

\* Load is called: lines 126-130.
LoadCall ==
  /\ pc = "idle"
  /\ importer = "none"
  /\ \E in \in ImporterInputs :
       \E r \in {NewImporter(in.c, in.pats, in.cm.map, in.deps)} :
          /\ Construct(in, r)
          /\ importer' = IF r.ok THEN "loading" ELSE "failed"
          /\ pc' = IF r.ok THEN "Load" ELSE "LoadDone"
          /\ pkgsOut' = IF r.ok THEN [i \in 1..Len(r.pkgPaths) |-> NilPkg]
                        ELSE <<>>
  /\ idx' = 1
  /\ imports' = <<>>
  /\ UNCHANGED <<env, disk, ret, opens, handles, failed>>

\* Load's loop going on to the next path after a failed Import.
LoadStepContinue ==
  /\ pc = "Load"
  /\ idx <= Len(pkgPaths)
  /\ \E partial \in Partials :
       \E r \in {Import(pkgPaths[idx], partial)} :
          /\ Imported(pkgPaths[idx], r)
          /\ pkgsOut' = [pkgsOut EXCEPT ![idx] = r.ret]
          /\ pc' = "Load"
  /\ imports' = Append(imports, pkgPaths[idx])
  /\ idx' = idx + 1
  /\ UNCHANGED <<env, conf, patterns, pkgPaths, reads, importer, pkgs,
                 callerMap, disk, depsCalls>>

\* One iteration of Load's loop: lines 131-135.
LoadStep ==
  /\ pc = "Load"
  /\ idx <= Len(pkgPaths)
  /\ \E partial \in Partials :
       \E r \in {Import(pkgPaths[idx], partial)} :
          /\ Imported(pkgPaths[idx], r)
          /\ pkgsOut' = [pkgsOut EXCEPT ![idx] = r.ret]
          /\ pc' = IF r.err # NilErr THEN "LoadDone" ELSE "Load"
  /\ imports' = Append(imports, pkgPaths[idx])
  /\ idx' = idx + 1
  /\ UNCHANGED <<env, conf, patterns, pkgPaths, reads, importer, pkgs,
                 callerMap, disk, depsCalls>>

\* Load returns after the last path: line 136.
LoadReturn ==
  /\ pc = "Load"
  /\ idx > Len(pkgPaths)
  /\ pc' = "LoadDone"
  /\ UNCHANGED <<env, conf, patterns, idx, pkgPaths, err, reads, impVars>>

\* Another process deletes, corrupts or restores an export file while an
\* importer exists.
ArtifactChange ==
  /\ importer \in {"ready", "loading"}
  /\ pc # "LoadDone"
  /\ \E f \in ExpFiles, st \in {"ok", "missing", "badheader", "baddata"} :
       /\ disk[f] # st
       /\ disk' = [disk EXCEPT ![f] = st]
  /\ UNCHANGED <<env, pc, conf, patterns, idx, pkgPaths, err, reads, importer,
                 pkgs, loaded, complete, nextObj, callerMap, ret, pkgsOut,
                 imports, opens, handles, depsCalls, failed>>

Next ==
  \/ NewImporterCall
  \/ ImportCall
  \/ LoadCall
  \/ LoadStep
  \/ LoadReturn
  \/ ArtifactChange

Spec == InitImporter /\ [][Next]_vars


(***************************************************************************)
(* Properties of the importer, checked under Spec.                         *)
(***************************************************************************)

\* The step is a call of Import, by the caller or by Load.  With an
\* importer ready and no call running, the only steps are ImportCall and
\* ArtifactChange, and ArtifactChange changes the disk.
ImportStep ==
  \/ pc = "idle" /\ importer = "ready" /\ disk' = disk
  \/ pc = "Load" /\ idx' = idx + 1

\* The path the Import of an ImportStep is called with.
Called == IF pc = "Load" THEN pkgPaths[idx] ELSE imports'[1]

\* The cache holds a complete package for path.
CachedComplete(path) ==
  path \in DOMAIN loaded /\ loaded[path] \in complete

\* C1: when the cache holds a complete package for P, Import(P) returns
\* exactly that package and no error, opens no file and leaves the cache
\* (the map and the packages' completeness) as it was -- whether or not P
\* is a key of the artifact map and whatever the state of its export file.
C1_CacheHit ==
  [][(ImportStep /\ CachedComplete(Called))
       => /\ ret' = loaded[Called]
          /\ err' = NilErr
          /\ opens' = <<>>
          /\ UNCHANGED <<loaded, complete, nextObj>>]_vars

\* A cache hit on p/q has happened although p/q is a key of the artifact
\* map and its export file is gone.
C1_Witness ==
  /\ importer = "ready"
  /\ imports = <<PathPQ>>
  /\ PathPQ \in DOMAIN pkgs
  /\ disk[ExpFile(PathPQ)] = "missing"
  /\ err = NilErr
  /\ opens = <<>>
  /\ ret # NilPkg
  /\ ret = loaded[PathPQ]


\* C2: Complete is terminal.  A complete entry of the cache stays in the
\* cache, the same object and complete, over every step; an Import that
\* returns no error leaves a complete entry for its path, the package it
\* returned; and an Import of a path with a complete entry succeeds and
\* returns that entry.  So once Import(P) has succeeded, every later
\* Import(P) returns the identical package, whatever happened in between.
C2_CompleteTerminal ==
  [][/\ \A path \in DOMAIN loaded :
          loaded[path] \in complete
            => /\ path \in DOMAIN loaded'
               /\ loaded'[path] = loaded[path]
               /\ loaded'[path] \in complete'
     /\ (ImportStep /\ err' = NilErr)
          => /\ Called \in DOMAIN loaded'
             /\ loaded'[Called] = ret'
             /\ ret' \in complete'
     /\ (ImportStep /\ CachedComplete(Called))
          => /\ err' = NilErr
             /\ ret' = loaded[Called]]_vars

\* p/q, which only an Import can have completed (the caller supplied no
\* package), is returned from the cache after an Import of e/m/a has
\* failed and the export file of p/q has been corrupted.
C2_Witness ==
  /\ importer = "ready"
  /\ DOMAIN callerMap = {}
  /\ PathEMA \in failed
  /\ disk[ExpFile(PathPQ)] = "baddata"
  /\ imports = <<PathPQ>>
  /\ err = NilErr
  /\ opens = <<>>
  /\ ret = loaded[PathPQ]
  /\ ret \in complete

\* C3: failures are not cached.  An Import that fails on its export file
\* (open, reader or decode error) returns no package and leaves no
\* complete entry for its path; and an Import of a path that failed
\* before, is a key of the artifact map and whose export file is intact
\* again opens that file, decodes it and succeeds.
C3_FailuresNotCached ==
  [][ImportStep
       => /\ err'.kind \in ArtifactErrKinds
               => /\ ret' = NilPkg
                  /\ ~(Called \in DOMAIN loaded'
                       /\ loaded'[Called] \in complete')
          /\ (/\ Called \in failed
              /\ ~CachedComplete(Called)
              /\ Called \in DOMAIN pkgs
              /\ disk[pkgs[Called]] = "ok")
               => /\ err' = NilErr
                  /\ opens' = <<pkgs[Called]>>
                  /\ ret' # NilPkg
                  /\ loaded'[Called] = ret'
                  /\ ret' \in complete']_vars

\* Import(p/q) has failed on the export file, the file was repaired, and
\* Import(p/q) has then decoded it.
C3_Witness ==
  /\ PathPQ \in failed
  /\ imports = <<PathPQ>>
  /\ err = NilErr
  /\ opens = <<ExpFile(PathPQ)>>
  /\ ret = loaded[PathPQ]
  /\ ret \in complete

\* The error Import returns for a key of the artifact map whose export
\* file is in state st.
ArtifactErr(expfile, st) ==
  IF st = "missing" THEN OpenErr(expfile)
  ELSE IF st = "badheader" THEN NewReaderErr(expfile)
  ELSE ReadErr(expfile)

\* C4: for a path with no complete entry in the cache that is not a key
\* of the artifact map, Import returns no package and syscall.ENOENT and
\* opens no file; for a key of the artifact map whose export file cannot
\* be opened or decoded, it returns the error of os.Open, NewReader or
\* Read, which is not that ENOENT value.
C4_NotFound ==
  [][ImportStep
       => /\ (~CachedComplete(Called) /\ Called \notin DOMAIN pkgs)
               => /\ ret' = NilPkg
                  /\ err' = ENOENT
                  /\ opens' = <<>>
                  /\ UNCHANGED <<loaded, complete>>
          /\ (/\ ~CachedComplete(Called)
              /\ Called \in DOMAIN pkgs
              /\ disk[pkgs[Called]] # "ok")
               => /\ ret' = NilPkg
                  /\ err' = ArtifactErr(pkgs[Called], disk[pkgs[Called]])
                  /\ err' # ENOENT
                  /\ opens' = <<pkgs[Called]>>]_vars

\* Import of the unknown path z has returned ENOENT, on an importer one
\* of whose export files has failed to load before.
C4_Witness ==
  /\ importer = "ready"
  /\ failed # {}
  /\ imports = <<PathZ>>
  /\ PathZ \notin DOMAIN pkgs
  /\ ret = NilPkg
  /\ err = ENOENT
  /\ opens = <<>>

\* C5: in every state with an importer, Import("unsafe") returns
\* types.Unsafe and no error, opens no file and changes nothing, whether
\* "unsafe" is a key of the artifact map or not.
C5_UnsafeImports ==
  importer \in {"ready", "loading"}
    => \A partial \in Partials :
         Import(Unsafe, partial) = Returns(UnsafeObj, NilErr, <<>>)

\* Import("unsafe") has succeeded on an importer built without a Loaded
\* map and with an empty artifact map.
C5_Witness ==
  /\ importer = "ready"
  /\ ConfOf(conf).LoadedIsNil
  /\ DOMAIN pkgs = {}
  /\ imports = <<Unsafe>>
  /\ ret = UnsafeObj
  /\ err = NilErr
  /\ opens = <<>>

\* C6: in every state with an importer, the cache entry of "unsafe" is
\* present and is types.Unsafe.
C6_UnsafeEntryKept ==
  importer \in {"ready", "loading"}
    => /\ Unsafe \in DOMAIN loaded
       /\ loaded[Unsafe] = UnsafeObj

\* The caller's map held a package of its own under "unsafe"; the
\* importer has since decoded p/q (which refers to "unsafe") and failed
\* on another export file.
C6_Witness ==
  /\ importer = "ready"
  /\ Unsafe \in DOMAIN callerMap
  /\ callerMap[Unsafe] # UnsafeObj
  /\ CachedComplete(PathPQ)
  /\ failed # {}
  /\ loaded[Unsafe] = UnsafeObj

\* Position i of Load's result holds the complete package of the i-th
\* resolved path.
Filled(i) ==
  /\ pkgsOut[i] # NilPkg
  /\ pkgPaths[i] \in DOMAIN loaded
  /\ pkgsOut[i] = loaded[pkgPaths[i]]
  /\ pkgsOut[i] \in complete

\* The errors Import(path) can return.
ImportErrs(path) ==
  {ENOENT} \cup
  (IF path \in DOMAIN pkgs
     THEN {OpenErr(pkgs[path]), NewReaderErr(pkgs[path]), ReadErr(pkgs[path])}
   ELSE {})

\* C7: Load calls Import on the resolved paths in their order, once each,
\* while no Import has failed; when an Import fails Load returns its
\* error, having called Import on no later path, with every position
\* before the failing one filled; when none fails every position is
\* filled and the error is nil.
C7_LoadInOrder ==
  importer = "loading"
    => /\ Len(pkgsOut) = Len(pkgPaths)
       /\ Len(imports) <= Len(pkgPaths)
       /\ imports = SubSeq(pkgPaths, 1, Len(imports))
       /\ pc = "Load"
            => /\ err = NilErr
               /\ Len(imports) = idx - 1
               /\ \A i \in 1..Len(imports) : Filled(i)
       /\ (pc = "LoadDone" /\ err = NilErr)
            => /\ Len(imports) = Len(pkgPaths)
               /\ \A i \in 1..Len(pkgPaths) : Filled(i)
       /\ (pc = "LoadDone" /\ err # NilErr)
            => /\ Len(imports) >= 1
               /\ \A i \in 1..(Len(imports) - 1) : Filled(i)
               /\ err \in ImportErrs(imports[Len(imports)])
               /\ ~CachedComplete(imports[Len(imports)])

\* Load over three resolved paths has returned the error of the second
\* Import: the first position is filled and the third path was not
\* imported.
C7_Witness ==
  /\ pc = "LoadDone"
  /\ importer = "loading"
  /\ Len(pkgPaths) = 3
  /\ Len(imports) = 2
  /\ err # NilErr
  /\ Filled(1)
  /\ pkgsOut[3] = NilPkg


(***************************************************************************)
(* Properties of the pattern resolver, checked under SpecList.             *)
(***************************************************************************)

\* A pattern without its recursive marker, "/" standing for the marker
\* alone.
Stem(p) ==
  IF HasSuffix(p, multi)
    THEN IF Len(p) = Len(multi) THEN Slash
         ELSE SubSeq(p, 1, Len(p) - Len(multi))
  ELSE p

\* A pattern that names a directory: its stem starts with "." or "/".
IsFsPattern(p) == HasPrefix(Stem(p), Dot) \/ HasPrefix(Stem(p), Slash)

\* Directory e is d or lies below d.
InSubtree(d, e) == Len(d) <= Len(e) /\ SubSeq(e, 1, Len(d)) = d

\* Directory e is d, or lies below d with no directory on the way from d
\* to e (e included) whose name starts with "_".
Visible(d, e) ==
  /\ InSubtree(d, e)
  /\ \A i \in (Len(d) + 1)..Len(e) : ~HasPrefix(e[i], <<"_">>)

\* The extension set of a configuration.
ExtsIn(c) ==
  IF c.SupportedExts.isNil THEN {<<".", "g", "o">>} ELSE c.SupportedExts.keys

\* Directory d directly contains a file with a recognized extension whose
\* name does not start with "_".
Qualifies(c, d) ==
  \E f \in files[d] : ~HasPrefix(f, <<"_">>) /\ Ext(f) \in ExtsIn(c)

\* The module prefix joined with the path of d relative to the module
\* root.
ImportPathOf(c, d) == Join(c.ModPath, Rel(Abs(c.ModRoot), DirString(d)))

\* The position of an import path in the result.
IndexOf(x) == CHOOSE i \in 1..Len(pkgPaths) : pkgPaths[i] = x

ResultSet == {pkgPaths[i] : i \in 1..Len(pkgPaths)}

\* List has returned without error from one recursive filesystem pattern
\* over a tree all of whose directories can be read, for a configuration
\* that sets the module root and path.
RecursiveListed ==
  /\ pc = "ListDone"
  /\ err = NilErr
  /\ ~conf.isNil
  /\ Len(patterns) = 1
  /\ HasSuffix(patterns[1], multi)
  /\ IsFsPattern(patterns[1])
  /\ unreadable = {}

\* The directory a listed recursive pattern names.
ListedRoot == Resolve(Stem(patterns[1]))[2]

\* The first name on which the paths of two directories differ, neither
\* directory lying below the other.
Fork(d, e) == CommonLen(d, e) + 1

\* C8 as claimed: the result holds exactly the directories of the subtree
\* that directly contain a recognized file, and a directory comes before
\* its descendants.
C8_RootFirst ==
  RecursiveListed
    => LET want == {d \in Dirs : InSubtree(ListedRoot, d) /\ Qualifies(conf, d)}
       IN /\ ResultSet = {ImportPathOf(conf, d) : d \in want}
          /\ \A d, e \in want :
               (d # e /\ InSubtree(d, e))
                 => IndexOf(ImportPathOf(conf, d)) < IndexOf(ImportPathOf(conf, e))

\* C8 as amended: the result holds, once each, exactly the directories
\* that are reached from the pattern's directory without entering a
\* subdirectory whose name starts with "_" and that directly contain a
\* recognized file; a directory comes after its descendants, and
\* subtrees of one directory come in the byte order of their names.
C8_PostOrder ==
  RecursiveListed
    => LET want == {d \in Dirs : Visible(ListedRoot, d) /\ Qualifies(conf, d)}
       IN /\ ResultSet = {ImportPathOf(conf, d) : d \in want}
          /\ Len(pkgPaths) = Cardinality(want)
          /\ \A d, e \in want :
               /\ (d # e /\ InSubtree(d, e))
                    => IndexOf(ImportPathOf(conf, e)) < IndexOf(ImportPathOf(conf, d))
               /\ (/\ ~InSubtree(d, e)
                   /\ ~InSubtree(e, d)
                   /\ StrLess(d[Fork(d, e)], e[Fork(d, e)]))
                    => IndexOf(ImportPathOf(conf, d)) < IndexOf(ImportPathOf(conf, e))

\* ./... has been listed from the module root, where /m, /m/a, /m/b and
\* /m/b/s hold a recognized file and so do /m/_t and /m/_t/s: the result
\* is e/m/a, e/m/b/s, e/m/b, e/m.
C8_Witness ==
  /\ RecursiveListed
  /\ patterns = <<PatDotAll>>
  /\ cwd = ModM
  /\ FileGo \in files[DirT]
  /\ pkgPaths = <<PathEMA, ImportPathOf(conf, DirBS), ImportPathOf(conf, DirB),
                  ModPathEM>>

\* The step handles one pattern of List.
ListPattern == pc = "List" /\ idx <= Len(patterns)

\* A bare import path: a pattern that starts with neither "." nor "/".
IsBare(p) == ~HasPrefix(p, Dot) /\ ~HasPrefix(p, Slash)

\* C9 as claimed: a bare pattern is appended exactly as given, and no
\* directory is read for it.
C9_BareUnchanged ==
  [][(ListPattern /\ IsBare(patterns[idx]))
       => /\ pkgPaths' = Append(pkgPaths, patterns[idx])
          /\ err' = NilErr
          /\ reads' = reads]_vars

\* C9 as amended: a bare pattern is appended without its trailing "/...",
\* so exactly as given when it does not end in "/..."; no directory is
\* read for it.
C9_BareStem ==
  [][(ListPattern /\ IsBare(patterns[idx]))
       => /\ pkgPaths' = Append(pkgPaths, Stem(patterns[idx]))
          /\ (~HasSuffix(patterns[idx], multi)
                => pkgPaths' = Append(pkgPaths, patterns[idx]))
          /\ err' = NilErr
          /\ reads' = reads]_vars

\* List has handled p/q and then p/...: the result is p/q, p and no
\* directory was read.
C9_Witness ==
  /\ pc = "ListDone"
  /\ patterns = <<PatBare, PatBareAll>>
  /\ pkgPaths = <<PatBare, <<"p">>>>
  /\ err = NilErr
  /\ reads = <<>>

\* The pattern names a directory whose path relative to the module root
\* starts with "..".
Escapes(c, p) ==
  /\ IsFsPattern(p)
  /\ HasPrefix(Rel(Abs(c.ModRoot), Abs(Stem(p))), DotDot)

\* C10: for a filesystem pattern whose relative path starts with "..",
\* List returns the "outside available modules" error naming it, having
\* read no directory for it, and handles no further pattern.
C10_OutsideModule ==
  [][(ListPattern /\ Escapes(ConfOf(conf), patterns[idx]))
       => /\ err' = OutsideErr(Stem(patterns[idx]))
          /\ reads' = reads
          /\ pc' = "ListDone"
          /\ ~(ListPattern')]_vars

\* List was called with ../o and a second pattern and has returned the
\* error of ../o with no directory read and the second pattern unhandled.
C10_Witness ==
  /\ pc = "ListDone"
  /\ Len(patterns) = 2
  /\ patterns[1] = PatUp
  /\ IsFsPattern(patterns[2])
  /\ idx = 2
  /\ err = OutsideErr(PatUp)
  /\ reads = <<>>

\* C11 as claimed: when a pattern after the first fails with the "outside
\* available modules" error, List returns that error together with the
\* import paths the earlier patterns produced, the failing pattern adding
\* nothing.
C11_EarlierPathsKept ==
  [][(ListPattern /\ idx > 1 /\ Escapes(ConfOf(conf), patterns[idx]))
       => /\ err' = OutsideErr(Stem(patterns[idx]))
          /\ pc' = "ListDone"
          /\ pkgPaths' = pkgPaths]_vars

\* The directory a filesystem pattern names, as the system calls of the
\* process resolve it: <<TRUE, dir>>, or <<FALSE, _>> when there is none.
PatternDir(p) == Resolve(Stem(p))

\* os.ReadDir succeeds on the directory of the pattern.
PatternDirReadable(p) ==
  PatternDir(p)[1] /\ PatternDir(p)[2] \notin unreadable

\* The step handles a filesystem pattern that lies inside the module.
ListInside ==
  /\ ListPattern
  /\ IsFsPattern(patterns[idx])
  /\ ~Escapes(ConfOf(conf), patterns[idx])

\* pkgPathBase of line 76 for pattern p.
PkgPathBase(c, p) == Join(c.ModPath, Rel(Abs(c.ModRoot), Abs(Stem(p))))

RECURSIVE Below(_)
\* "/" and a name for every name of the list, as line 97 extends
\* pkgPathBase on the way down.
Below(names) ==
  IF names = <<>> THEN <<>>
  ELSE Slash \o Head(names) \o Below(Tail(names))

\* The import path a scan that began at directory root for pattern p
\* gives directory e of the subtree of root.
ScanPathOf(c, p, root, e) ==
  PkgPathBase(c, p) \o Below(SubSeq(e, Len(root) + 1, Len(e)))

\* The directories the recursive scan from root reads successfully: those
\* reached from root through directories that do not start with "_" and
\* can be read.
Reached(root) ==
  {e \in Dirs :
     /\ Visible(root, e)
     /\ \A i \in Len(root)..Len(e) : SubSeq(e, 1, i) \notin unreadable}

\* The import paths the step appends to the result.
Added == SubSeq(pkgPaths', Len(pkgPaths) + 1, Len(pkgPaths'))

AddedSet == {Added[i] : i \in 1..Len(Added)}

\* The step keeps the import paths of the earlier patterns.
KeepsEarlier ==
  /\ Len(pkgPaths') >= Len(pkgPaths)
  /\ SubSeq(pkgPaths', 1, Len(pkgPaths)) = pkgPaths

\* C12: a non-recursive filesystem pattern whose directory cannot be read
\* makes List return the read error at once; a recursive pattern whose own
\* directory can be read succeeds whatever subdirectories cannot be read,
\* and adds the paths of exactly the qualifying directories reached
\* without passing through an unreadable one.
C12_ReadFailures ==
  [][ListInside =>
       LET p == patterns[idx]
           c == ConfOf(conf)
       IN /\ (~HasSuffix(p, multi) /\ ~PatternDirReadable(p))
               => /\ err' = ReadDirErr(Stem(p))
                  /\ pc' = "ListDone"
                  /\ pkgPaths' = pkgPaths
          /\ (HasSuffix(p, multi) /\ PatternDirReadable(p))
               => /\ err' = NilErr
                  /\ pc' = "List"
                  /\ KeepsEarlier
                  /\ AddedSet =
                       {ScanPathOf(c, p, PatternDir(p)[2], e) :
                          e \in {d \in Reached(PatternDir(p)[2]) :
                                   Qualifies(c, d)}}]_vars

\* From /m with /m/a unreadable, List has handled ./... and then ./a: the
\* recursive pattern gave the paths of /m/b/s and of /m itself, and the
\* read error of ./a ended the call.
C12_Witness ==
  /\ pc = "ListDone"
  /\ cwd = ModM
  /\ unreadable = {DirA}
  /\ conf = [NewConfig EXCEPT !.ModRoot = ModM, !.ModPath = ModPathEM]
  /\ patterns = <<PatDotAll, PatA>>
  /\ pkgPaths = <<ImportPathOf(conf, DirBS), ModPathEM>>
  /\ err = ReadDirErr(PatA)

\* The directories the step scans: those a successful os.ReadDir of the
\* step read.
Scanned ==
  {Resolve(reads'[j])[2] :
     j \in {k \in (Len(reads) + 1)..Len(reads') : ReadDir(reads'[k]).ok}}

\* C13: the import path of a directory scanned for a pattern is appended
\* if and only if the directory directly contains a file that does not
\* start with "_" and has a recognized extension, and nothing else is
\* appended; a non-recursive pattern scans its own directory only.
C13_DirectFilesOnly ==
  [][(ListInside /\ PatternDir(patterns[idx])[1]) =>
       LET p == patterns[idx]
           c == ConfOf(conf)
           root == PatternDir(p)[2]
       IN /\ \A d \in Scanned :
               /\ InSubtree(root, d)
               /\ ScanPathOf(c, p, root, d) \in AddedSet <=> Qualifies(c, d)
          /\ Len(Added) = Cardinality({d \in Scanned : Qualifies(c, d)})
          /\ KeepsEarlier
          /\ ~HasSuffix(p, multi) => Scanned \subseteq {root}]_vars

\* From /m, where /m has no file of its own and /m/a has x.go, List has
\* handled . and ./a: the first pattern added nothing, the second the path
\* of /m/a.
C13_Witness ==
  /\ pc = "ListDone"
  /\ cwd = ModM
  /\ unreadable = {}
  /\ conf = [NewConfig EXCEPT !.ModRoot = ModM, !.ModPath = ModPathEM]
  /\ patterns = <<PatDot, PatA>>
  /\ files[DirM] = {}
  /\ FileGo \in files[DirA]
  /\ reads = <<PatDot, PatA>>
  /\ pkgPaths = <<PathEMA>>
  /\ err = NilErr

\* The step handles a relative filesystem pattern.
ListRelative == ListPattern /\ HasPrefix(Stem(patterns[idx]), Dot)

\* What the step does when the relative pattern it handles is resolved
\* against directory base (an absolute path): the pattern is outside the
\* module when base joined with it leaves the module root; otherwise the
\* directory read first is the one the pattern names from base, every
\* import path added starts with the module prefix joined with that
\* directory's path relative to the module root, and a non-recursive
\* pattern adds exactly that path when the directory qualifies.
AnchoredAt(base) ==
  LET p == patterns[idx]
      c == ConfOf(conf)
      stem == Stem(p)
      d == Walk(Split(stem), AbsElems(base))
      rel == Rel(Abs(c.ModRoot), Join(base, stem))
  IN IF HasPrefix(rel, DotDot)
       THEN err' = OutsideErr(stem) /\ reads' = reads
     ELSE IF ~d[1] \/ d[2] \in unreadable
       THEN err' = ReadDirErr(stem)
     ELSE /\ err' = NilErr
          /\ Len(reads') > Len(reads)
          /\ Resolve(reads'[Len(reads) + 1]) = d
          /\ \A i \in 1..Len(Added) :
               HasPrefix(Added[i], Join(c.ModPath, rel))
          /\ ~HasSuffix(p, multi)
               => Added = IF Qualifies(c, d[2])
                            THEN <<Join(c.ModPath, rel)>>
                          ELSE <<>>

\* C14 as claimed: a relative pattern is resolved against the module
\* root, whatever the working directory of the process.
C14_AnchoredAtModRoot ==
  [][ListRelative => AnchoredAt(Abs(ConfOf(conf).ModRoot))]_vars

\* C14 as amended: a relative pattern is resolved against the working
\* directory of the process; the import path is the module prefix joined
\* with the path of the directory so named relative to the module root.
C14_AnchoredAtCwd ==
  [][ListRelative => AnchoredAt(cwd)]_vars

\* From /m/b, with module root /m, List has handled the pattern . : it
\* read /m/b and returned the import path of /m/b, not that of /m.
C14_Witness ==
  /\ pc = "ListDone"
  /\ cwd = DirString(DirB)
  /\ unreadable = {}
  /\ conf = [NewConfig EXCEPT !.ModRoot = ModM, !.ModPath = ModPathEM]
  /\ patterns = <<PatDot>>
  /\ FileGo \in files[DirB]
  /\ reads = <<PatDot>>
  /\ pkgPaths = <<ImportPathOf(conf, DirB)>>
  /\ pkgPaths # <<ModPathEM>>
  /\ err = NilErr

(***************************************************************************)
(* Further properties of the importer, checked under Spec.                 *)
(***************************************************************************)

\* C15: no export-file handle is open between Import calls, whether the
\* calls succeeded, failed to open the file, failed to create the reader
\* or failed to decode.
C15_NoOpenHandles == handles = 0

\* An Import has opened an export file, failed to decode it, and left no
\* handle open; an earlier Import has succeeded.
C15_Witness ==
  /\ importer = "ready"
  /\ pc = "idle"
  /\ opens # <<>>
  /\ err.kind = "Read error"
  /\ \E path \in ArtifactPaths : CachedComplete(path)
  /\ handles = 0

\* C16: NewImporter returns no importer and the error of List when List
\* fails, without calling loadDeps; it returns no importer and the error
\* of loadDeps when loadDeps, called with the resolved paths, fails; and
\* after either failure the caller's map holds what it held before the
\* call.
C16_ConstructionFails ==
  importer # "none" =>
    LET l == ListResult(conf, patterns)
    IN /\ l.err # NilErr
            => /\ importer = "failed"
               /\ err = l.err
               /\ depsCalls = <<>>
       /\ l.err = NilErr
            => /\ Len(depsCalls) = 1
               /\ depsCalls[1].pkgPaths = l.pkgPaths
               /\ depsCalls[1].err # NilErr
                    => importer = "failed" /\ err = depsCalls[1].err
               /\ depsCalls[1].err = NilErr
                    => importer \in {"ready", "loading"}
       /\ importer = "failed"
            => /\ err # NilErr
               /\ pkgs = << >>
               /\ loaded = callerMap

\* NewImporter was given the caller's map and has failed in loadDeps: the
\* map still holds the caller's one package and no "unsafe".
C16_Witness ==
  /\ importer = "failed"
  /\ ~conf.LoadedIsNil
  /\ Len(depsCalls) = 1
  /\ err = LoadDepsErr
  /\ DOMAIN callerMap = {PathPQ}
  /\ loaded = callerMap

\* The step handles the pattern that is the recursive marker alone.
ListMarker == ListPattern /\ patterns[idx] = multi

\* The module root directory of a configuration.
ModRootDir(c) == AbsElems(Abs(c.ModRoot))

\* The step lists directory root recursively, the import path of root
\* being base: it reads root first and adds the paths of exactly the
\* qualifying directories reached from it.
ListsRecursively(c, root, base) ==
  /\ err' = NilErr
  /\ Len(reads') > Len(reads)
  /\ Resolve(reads'[Len(reads) + 1]) = <<TRUE, root>>
  /\ KeepsEarlier
  /\ AddedSet = {base \o Below(SubSeq(e, Len(root) + 1, Len(e))) :
                   e \in {d \in Reached(root) : Qualifies(c, d)}}

\* C17 as claimed: the marker alone stands for the module root, which is
\* listed recursively with the module prefix as its import path.
C17_MarkerIsModuleRoot ==
  [][(ListMarker /\ ModRootDir(ConfOf(conf)) \in Dirs \ unreadable)
       => ListsRecursively(ConfOf(conf), ModRootDir(ConfOf(conf)),
                           Join(ConfOf(conf).ModPath, Dot))]_vars

\* C17 as amended: the marker alone stands for the root of the file
\* system.  Unless the module root is "/" the pattern is outside the
\* module: List fails with that error for "/" and reads no directory.
\* When the module root is "/", the directory "/" is listed recursively.
C17_MarkerIsFsRoot ==
  [][ListMarker =>
       IF ModRootDir(ConfOf(conf)) = RootDir
         THEN RootDir \notin unreadable
                => /\ reads'[Len(reads) + 1] = Slash
                   /\ ListsRecursively(ConfOf(conf), RootDir,
                                       Join(ConfOf(conf).ModPath, Dot))
       ELSE /\ err' = OutsideErr(Slash)
            /\ reads' = reads
            /\ pc' = "ListDone"]_vars

\* With module root "/", List has handled /... : it read "/" and the
\* directories below it and returned the paths of /m/a and /o under the
\* module prefix.
C17_Witness ==
  /\ pc = "ListDone"
  /\ conf = [NewConfig EXCEPT !.ModRoot = Slash, !.ModPath = ModPathEM]
  /\ patterns = <<PatRootAll>>
  /\ unreadable = {}
  /\ reads[1] = Slash
  /\ err = NilErr
  /\ ModPathEM \o <<"/", "m", "/", "a">> \in ResultSet
  /\ ModPathEM \o <<"/", "o">> \in ResultSet

\* The cache holds a package for path that is not complete.
CachedIncomplete(path) ==
  path \in DOMAIN loaded /\ loaded[path] \notin complete

\* C18: when the cache holds an incomplete package for P, Import(P) does
\* not answer from the cache: if P is a key of the artifact map it opens
\* the export file of P and returns what the decode gives (a complete
\* package when the file is intact, else no package and the error);
\* otherwise it returns no package and the not-found error.  It never
\* returns an incomplete package.
C18_IncompleteNotTrusted ==
  [][(ImportStep /\ CachedIncomplete(Called))
       => /\ ret' = NilPkg \/ ret' \in complete'
          /\ IF Called \in DOMAIN pkgs
               THEN /\ opens' = <<pkgs[Called]>>
                    /\ IF disk[pkgs[Called]] = "ok"
                         THEN /\ err' = NilErr
                              /\ ret' = loaded'[Called]
                              /\ ret' \in complete'
                       ELSE /\ err'.kind \in ArtifactErrKinds
                            /\ ret' = NilPkg
                            /\ complete' = complete
             ELSE /\ ret' = NilPkg
                  /\ err' = ENOENT
                  /\ opens' = <<>>]_vars

\* The caller's map held a package for p/q from the start; an Import of
\* p/q has opened the export file and returned a complete package, so the
\* entry was incomplete and was decoded again.
C18_Witness ==
  /\ importer = "ready"
  /\ pc = "idle"
  /\ PathPQ \in DOMAIN callerMap
  /\ imports = <<PathPQ>>
  /\ opens = <<ExpFile(PathPQ)>>
  /\ err = NilErr
  /\ ret = loaded[PathPQ]
  /\ ret = callerMap[PathPQ]
  /\ ret \in complete

RECURSIVE Flatten(_)
\* The lists of a list of lists, one after the other.
Flatten(ls) == IF ls = <<>> THEN <<>> ELSE Head(ls) \o Flatten(Tail(ls))

\* C19: when List succeeds on each pattern of its list taken alone, it
\* succeeds on the list, and its result is its results for the single
\* patterns one after the other, in the order of the patterns, with
\* nothing left out.  List(A ++ B) = List(A) followed by List(B) is this
\* equation for A, for B and for A ++ B.
C19_Concatenation ==
  pc = "ListDone" =>
    \A rs \in {[i \in 1..Len(patterns) |->
                  ListResult(conf, <<patterns[i]>>)]} :
      (\A i \in 1..Len(patterns) : rs[i].err = NilErr)
        => /\ err = NilErr
           /\ pkgPaths = Flatten([i \in 1..Len(patterns) |-> rs[i].pkgPaths])

\* From /m, List has handled ./a and then ./... : the path of /m/a was
\* produced by the first pattern and again by the second, and is in the
\* result twice.
C19_Witness ==
  /\ pc = "ListDone"
  /\ cwd = ModM
  /\ unreadable = {}
  /\ conf = [NewConfig EXCEPT !.ModRoot = ModM, !.ModPath = ModPathEM]
  /\ patterns = <<PatA, PatDotAll>>
  /\ err = NilErr
  /\ Len(pkgPaths) >= 2
  /\ pkgPaths[1] = PathEMA
  /\ pkgPaths[2] = PathEMA

\* C20: a call of Import leaves the artifact map as it was; and a call
\* that opens no export file -- the cache-hit branch and the not-found
\* branch -- leaves the cache as it was: the map, the packages and their
\* completeness.
C20_ImportFrame ==
  [][ImportStep
       => /\ pkgs' = pkgs
          /\ (CachedComplete(Called) \/ Called \notin DOMAIN pkgs)
               => /\ opens' = <<>>
                  /\ UNCHANGED <<loaded, complete, nextObj>>
          /\ (loaded' # loaded \/ complete' # complete)
               => /\ opens' = <<pkgs[Called]>>
                  /\ disk[pkgs[Called]] \in {"ok", "baddata"}]_vars

\* An Import of z, which is neither cached nor in the artifact map, has
\* returned not-found after earlier decodes filled the cache; the artifact
\* map still holds its two entries.
C20_Witness ==
  /\ importer = "ready"
  /\ pc = "idle"
  /\ imports = <<PathZ>>
  /\ err = ENOENT
  /\ opens = <<>>
  /\ DOMAIN pkgs = {PathPQ, PathEMA}
  /\ PathZ \notin DOMAIN loaded
  /\ CachedComplete(PathPQ)

====
